---- MODULE Spec2Model ----
(***************************************************************************)
(* Kinetic Tilt: the gameplay state machine (GameStateManager) and the     *)
(* high score it persists in localStorage.                                 *)
(*                                                                         *)
(* Time is counted in ticks of 1/TicksPerSecond seconds, so that           *)
(* Math.floor(timeRemaining * k) is ((ticks * k) \div TicksPerSecond).     *)
(* The text stored in localStorage is a sequence of decimal digits.        *)
(***************************************************************************)
EXTENDS Integers, Sequences, FiniteSets, TLC

VARIABLES
    state,            \* GameStateManager.state
    score,            \* GameStateManager.score
    highScore,        \* GameStateManager.highScore
    goalsCollected,   \* GameStateManager.goalsCollected
    timeRemaining,    \* GameStateManager.timeRemaining, in ticks
    onStateChange,    \* TRUE iff a state-change callback is registered
    localStorage,     \* window.localStorage: key -> stored text
    call,             \* the public operation that ran last, with its argument
    phases,           \* values held by this.state during that call, entry first
    notified,         \* arguments the observer was invoked with during that call
    writes,           \* texts handed to localStorage.setItem during that call
    goals,            \* GoalSystem.goals
    goalCall,         \* the GoalSystem operation that ran last, with its argument
    goalReturn,       \* what GoalSystem.update returned last: <<>> is null
    currentVector,    \* GravityController.currentVector
    targetVector,     \* GravityController.targetVector
    smoothingFactor,  \* GravityController.smoothingFactor, a fraction <<n, d>>
    lastBeta,         \* GravityController.lastBeta
    lastGamma,        \* GravityController.lastGamma
    gravityCall,      \* the GravityController operation that ran last
    engineGravity,    \* PhysicsWorld.engine.gravity, <<x, y>>
    heroBody,         \* PhysicsWorld.heroBody: <<>> is null, else <<body>>
    physicsCall,      \* the PhysicsWorld operation that ran last
    platform,         \* what the browser offers for device orientation
    inputState,       \* DeviceInputManager.state
    fallbackListeners,    \* times the mouse/touch listeners were added
    orientationListeners, \* times the deviceorientation listener was added
    capabilityTimer,  \* the 1 s timeout of detectCapabilities is pending
    pendingRequest,   \* requestPermission() awaits the platform's answer
    requests,         \* calls of requestPermission() so far
    permissionButton, \* main's permission button is in the document
    buttonTimer,      \* main's 1 s timeout for the button is pending
    inputCall,        \* the input operation that ran last
    heroMesh,         \* position <<x, z>> of the hero sphere of the scene
    accumulator,      \* main's accumulator (see FixedTimestep for its unit)
    frames,           \* frames of the game loop run so far
    nextCallback,     \* the animation-frame callback that runs next
    frameCall,        \* elapsed time and physics slices of the last gameLoop
    winModal,         \* what showWinScreen wrote into the win modal
    gameCall          \* the callback of main that ran last

gsmVars == <<state, score, highScore, goalsCollected, timeRemaining,
             onStateChange, localStorage, call, phases, notified, writes>>

goalVars == <<goals, goalCall, goalReturn>>

gravityVars == <<currentVector, targetVector, smoothingFactor,
                 lastBeta, lastGamma, gravityCall>>

physicsVars == <<engineGravity, heroBody, physicsCall>>

inputVars == <<platform, inputState, fallbackListeners, orientationListeners,
               capabilityTimer, pendingRequest, requests, permissionButton,
               buttonTimer, inputCall>>

gameVars == <<heroMesh, accumulator, frames, nextCallback, frameCall,
              winModal, gameCall>>

vars == <<gsmVars, goalVars, gravityVars, physicsVars, inputVars, gameVars>>

----------------------------------------------------------------------------
(* Bounds of the model *)

TicksPerSecond == 20
PositionUnit == 100

----------------------------------------------------------------------------
(* Program constants *)

GameState == {"READY", "PLAYING", "PAUSED", "WIN", "GAME_OVER"}

GOALS_REQUIRED == 10
TIME_LIMIT == 60
TIME_BONUS_MULTIPLIER == 10
baseScore == 100
speedBonusPerSecond == 2
HIGHSCORE_KEY == "kinetic-tilt-highscore"

TimeLimitTicks == TIME_LIMIT * TicksPerSecond

\* deltaTime arguments, in ticks: zero, a third of a game (not a whole
\* number of tenths of a second), and a whole game.
DeltaTimes == {0, (TimeLimitTicks * 13) \div 36, TimeLimitTicks}

\* Math.floor(t * k) for a time of t ticks
FloorTimes(t, k) == (t * k) \div TicksPerSecond

----------------------------------------------------------------------------
(* Number <-> text, as Number.prototype.toString and parseInt(_, 10) do it *)

RECURSIVE toString(_)
toString(n) ==
    IF n < 10 THEN <<n>> ELSE Append(toString(n \div 10), n % 10)

RECURSIVE parseInt(_)
parseInt(text) ==
    IF Len(text) = 1 THEN text[1]
    ELSE parseInt(SubSeq(text, 1, Len(text) - 1)) * 10 + text[Len(text)]

\* localStorage.getItem(key) is truthy: the key exists and its text is not ""
HasItem(store, key) == key \in DOMAIN store /\ store[key] # <<>>

setItem(store, key, text) ==
    [k \in (DOMAIN store) \cup {key} |-> IF k = key THEN text ELSE store[k]]

----------------------------------------------------------------------------
(* The manager as a value: the fields, the storage and the per-call logs *)

World ==
    [state |-> state, score |-> score, highScore |-> highScore,
     goalsCollected |-> goalsCollected, timeRemaining |-> timeRemaining,
     onStateChange |-> onStateChange, localStorage |-> localStorage,
     phases |-> phases, notified |-> notified, writes |-> writes]

\* A public operation is entered: the logs of the previous call are dropped
Enter ==
    [World EXCEPT !.phases = <<state>>, !.notified = <<>>, !.writes = <<>>]

Commit(w) ==
    /\ state' = w.state
    /\ score' = w.score
    /\ highScore' = w.highScore
    /\ goalsCollected' = w.goalsCollected
    /\ timeRemaining' = w.timeRemaining
    /\ onStateChange' = w.onStateChange
    /\ localStorage' = w.localStorage
    /\ phases' = w.phases
    /\ notified' = w.notified
    /\ writes' = w.writes

\* this.state = s
AssignState(w, s) == [w EXCEPT !.state = s, !.phases = Append(@, s)]

\* if (this.onStateChange) this.onStateChange(s)
Notify(w, s) ==
    IF w.onStateChange THEN [w EXCEPT !.notified = Append(@, s)] ELSE w

loadHighScore(w) ==
    IF HasItem(w.localStorage, HIGHSCORE_KEY)
    THEN [w EXCEPT !.highScore = parseInt(w.localStorage[HIGHSCORE_KEY])]
    ELSE w

saveHighScore(w) ==
    [w EXCEPT !.localStorage = setItem(@, HIGHSCORE_KEY, toString(w.highScore)),
              !.writes = Append(@, toString(w.highScore))]

setState(w, newState) ==
    IF w.state = newState THEN w
    ELSE Notify(AssignState(w, newState), newState)

\* reset() that leaves the score of the finished game in place
reset_keepsScore(w) ==
    Notify([AssignState(w, "READY") EXCEPT
                !.goalsCollected = 0,
                !.timeRemaining = TimeLimitTicks],
           "READY")

\* reset() that goes through setState and so notifies only on a change
reset_viaSetState(w) ==
    [setState(w, "READY") EXCEPT
        !.score = 0,
        !.goalsCollected = 0,
        !.timeRemaining = TimeLimitTicks]

reset(w) ==
    Notify([AssignState(w, "READY") EXCEPT
                !.score = 0,
                !.goalsCollected = 0,
                !.timeRemaining = TimeLimitTicks],
           "READY")

\* startGame() that forgets the reset
startGame_noReset(w) == setState(w, "PLAYING")

\* startGame() that resets after the transition instead of before it
startGame_resetLast(w) == reset(setState(w, "PLAYING"))

startGame(w) == setState(reset(w), "PLAYING")

handleGameOver(w) == setState(w, "GAME_OVER")

\* handleWin() that pays the per-goal rate as the final bonus
handleWin_smallBonus(w) ==
    LET timeBonus == FloorTimes(w.timeRemaining, speedBonusPerSecond)
        w1 == [w EXCEPT !.score = @ + timeBonus]
        w2 == IF w1.score > w1.highScore
              THEN saveHighScore([w1 EXCEPT !.highScore = w1.score])
              ELSE w1
    IN  setState(w2, "WIN")

\* handleWin() that clears the progress counter when the game is won
handleWin_clearsProgress(w) ==
    LET timeBonus == FloorTimes(w.timeRemaining, TIME_BONUS_MULTIPLIER)
        w1 == [w EXCEPT !.score = @ + timeBonus, !.goalsCollected = 0]
        w2 == IF w1.score > w1.highScore
              THEN saveHighScore([w1 EXCEPT !.highScore = w1.score])
              ELSE w1
    IN  setState(w2, "WIN")

\* handleWin() that also records a score equal to the high score
handleWin_nonStrict(w) ==
    LET timeBonus == FloorTimes(w.timeRemaining, TIME_BONUS_MULTIPLIER)
        w1 == [w EXCEPT !.score = @ + timeBonus]
        w2 == IF w1.score >= w1.highScore
              THEN saveHighScore([w1 EXCEPT !.highScore = w1.score])
              ELSE w1
    IN  setState(w2, "WIN")

handleWin(w) ==
    LET timeBonus == FloorTimes(w.timeRemaining, TIME_BONUS_MULTIPLIER)
        w1 == [w EXCEPT !.score = @ + timeBonus]
        w2 == IF w1.score > w1.highScore
              THEN saveHighScore([w1 EXCEPT !.highScore = w1.score])
              ELSE w1
    IN  setState(w2, "WIN")

\* update() without the phase guard
update_anyPhase(w, deltaTime) ==
    LET w1 == [w EXCEPT !.timeRemaining = @ - deltaTime]
    IN  IF w1.timeRemaining <= 0
        THEN handleGameOver([w1 EXCEPT !.timeRemaining = 0])
        ELSE w1

\* update() that ends the game only once the clock is below zero
update_strictExpiry(w, deltaTime) ==
    IF w.state # "PLAYING" THEN w
    ELSE LET w1 == [w EXCEPT !.timeRemaining = @ - deltaTime]
         IN  IF w1.timeRemaining < 0
             THEN handleGameOver([w1 EXCEPT !.timeRemaining = 0])
             ELSE w1

\* update() that ends the game without clamping the clock
update_noClamp(w, deltaTime) ==
    IF w.state # "PLAYING" THEN w
    ELSE LET w1 == [w EXCEPT !.timeRemaining = @ - deltaTime]
         IN  IF w1.timeRemaining <= 0 THEN handleGameOver(w1) ELSE w1

\* update() that counts down and never ends the game
update_noExpiry(w, deltaTime) ==
    IF w.state # "PLAYING" THEN w
    ELSE LET w1 == [w EXCEPT !.timeRemaining = @ - deltaTime]
         IN  IF w1.timeRemaining <= 0
             THEN [w1 EXCEPT !.timeRemaining = 0]
             ELSE w1

update(w, deltaTime) ==
    IF w.state # "PLAYING" THEN w
    ELSE LET w1 == [w EXCEPT !.timeRemaining = @ - deltaTime]
         IN  IF w1.timeRemaining <= 0
             THEN handleGameOver([w1 EXCEPT !.timeRemaining = 0])
             ELSE w1

\* onGoalCollected() without the phase guard
onGoalCollected_anyPhase(w) ==
    LET speedBonus == FloorTimes(w.timeRemaining, speedBonusPerSecond)
        totalGoalScore == baseScore + speedBonus
        w1 == [w EXCEPT !.goalsCollected = @ + 1,
                        !.score = @ + totalGoalScore]
    IN  IF w1.goalsCollected >= GOALS_REQUIRED THEN handleWin(w1) ELSE w1

onGoalCollected(w) ==
    IF w.state # "PLAYING" THEN w
    ELSE LET speedBonus == FloorTimes(w.timeRemaining, speedBonusPerSecond)
             totalGoalScore == baseScore + speedBonus
             w1 == [w EXCEPT !.goalsCollected = @ + 1,
                             !.score = @ + totalGoalScore]
         IN  IF w1.goalsCollected >= GOALS_REQUIRED THEN handleWin(w1) ELSE w1

\* new GameStateManager(): field initialisers, loadHighScore(), reset()
constructor(store) ==
    reset(loadHighScore(
        [state |-> "READY", score |-> 0, highScore |-> 0,
         goalsCollected |-> 0, timeRemaining |-> TimeLimitTicks,
         onStateChange |-> FALSE, localStorage |-> store,
         phases |-> <<"READY">>, notified |-> <<>>, writes |-> <<>>]))

setStateChangeCallback(w) == [w EXCEPT !.onStateChange = TRUE]

----------------------------------------------------------------------------
(* GravityController.                                                      *)
(* Angles are counted in 1/AngleUnit degrees and gravity components in     *)
(* 1/GravityScale, rounded toward zero.  A vector is a record [x, y, z];   *)
(* a factor or an intensity is a fraction <<n, d>> with d > 0.             *)

AngleUnit == 2
GravityScale == 6

MAX_TILT_ANGLE == 45
MAX_BETA_SAFE == 80
GRAVITY_MULTIPLIER == <<3, 2>>
DEADZONE == 2
defaultSmoothing == <<3, 20>>

Vector3(x, y, z) == [x |-> x, y |-> y, z |-> z]

Abs(n) == IF n < 0 THEN -n ELSE n

\* THREE.MathUtils.clamp
clamp(value, min, max) ==
    IF value < min THEN min ELSE IF value > max THEN max ELSE value

\* d * f for a fraction f, rounded toward zero
MulFrac(d, f) ==
    IF d >= 0 THEN (d * f[1]) \div f[2] ELSE -(((-d) * f[1]) \div f[2])

\* Vector3.lerp: this.c += (v.c - this.c) * alpha, for each component
lerp(this, v, alpha) ==
    Vector3(this.x + MulFrac(v.x - this.x, alpha),
            this.y + MulFrac(v.y - this.y, alpha),
            this.z + MulFrac(v.z - this.z, alpha))

Gravity ==
    [currentVector |-> currentVector, targetVector |-> targetVector,
     smoothingFactor |-> smoothingFactor,
     lastBeta |-> lastBeta, lastGamma |-> lastGamma]

CommitGravity(g) ==
    /\ currentVector' = g.currentVector
    /\ targetVector' = g.targetVector
    /\ smoothingFactor' = g.smoothingFactor
    /\ lastBeta' = g.lastBeta
    /\ lastGamma' = g.lastGamma

\* THREE.MathUtils.clamp(angle / MAX_TILT_ANGLE, -1, 1), as a fraction
Intensity(angle) ==
    <<clamp(angle, -MAX_TILT_ANGLE * AngleUnit, MAX_TILT_ANGLE * AngleUnit),
      MAX_TILT_ANGLE * AngleUnit>>

\* intensity * GRAVITY_MULTIPLIER, in gravity units
Scaled(intensity) ==
    MulFrac(intensity[1] * GravityScale,
            <<GRAVITY_MULTIPLIER[1], GRAVITY_MULTIPLIER[2] * intensity[2]>>)

\* update without the clamp of the intensities to [-1, 1]
gravityUpdate_noClamp(g, beta, gamma) ==
    LET beta1 == IF Abs(beta) < DEADZONE * AngleUnit THEN 0 ELSE beta
        gamma1 == IF Abs(gamma) < DEADZONE * AngleUnit THEN 0 ELSE gamma
        betaClamped == clamp(beta1, -MAX_BETA_SAFE * AngleUnit,
                             MAX_BETA_SAFE * AngleUnit)
        xIntensity == <<gamma1, MAX_TILT_ANGLE * AngleUnit>>
        zIntensity == <<betaClamped, MAX_TILT_ANGLE * AngleUnit>>
    IN  [g EXCEPT !.lastBeta = beta1,
                  !.lastGamma = gamma1,
                  !.targetVector = Vector3(Scaled(xIntensity), 0,
                                           -Scaled(zIntensity))]

\* update with z following the sign of beta
gravityUpdate_noInvert(g, beta, gamma) ==
    LET beta1 == IF Abs(beta) < DEADZONE * AngleUnit THEN 0 ELSE beta
        gamma1 == IF Abs(gamma) < DEADZONE * AngleUnit THEN 0 ELSE gamma
        betaClamped == clamp(beta1, -MAX_BETA_SAFE * AngleUnit,
                             MAX_BETA_SAFE * AngleUnit)
        xIntensity == Intensity(gamma1)
        zIntensity == Intensity(betaClamped)
    IN  [g EXCEPT !.lastBeta = beta1,
                  !.lastGamma = gamma1,
                  !.targetVector = Vector3(Scaled(xIntensity), 0,
                                           Scaled(zIntensity))]

\* update saturating at twice MAX_TILT_ANGLE
gravityUpdate_lateSaturation(g, beta, gamma) ==
    LET beta1 == IF Abs(beta) < DEADZONE * AngleUnit THEN 0 ELSE beta
        gamma1 == IF Abs(gamma) < DEADZONE * AngleUnit THEN 0 ELSE gamma
        betaClamped == clamp(beta1, -MAX_BETA_SAFE * AngleUnit,
                             MAX_BETA_SAFE * AngleUnit)
        xIntensity == <<clamp(gamma1, -2 * MAX_TILT_ANGLE * AngleUnit,
                              2 * MAX_TILT_ANGLE * AngleUnit),
                        MAX_TILT_ANGLE * AngleUnit>>
        zIntensity == <<clamp(betaClamped, -2 * MAX_TILT_ANGLE * AngleUnit,
                              2 * MAX_TILT_ANGLE * AngleUnit),
                        MAX_TILT_ANGLE * AngleUnit>>
    IN  [g EXCEPT !.lastBeta = beta1,
                  !.lastGamma = gamma1,
                  !.targetVector = Vector3(Scaled(xIntensity), 0,
                                           -Scaled(zIntensity))]

\* GravityController.update(beta, gamma)
gravityUpdate(g, beta, gamma) ==
    LET beta1 == IF Abs(beta) < DEADZONE * AngleUnit THEN 0 ELSE beta
        gamma1 == IF Abs(gamma) < DEADZONE * AngleUnit THEN 0 ELSE gamma
        betaClamped == clamp(beta1, -MAX_BETA_SAFE * AngleUnit,
                             MAX_BETA_SAFE * AngleUnit)
        xIntensity == Intensity(gamma1)
        zIntensity == Intensity(betaClamped)
    IN  [g EXCEPT !.lastBeta = beta1,
                  !.lastGamma = gamma1,
                  !.targetVector = Vector3(Scaled(xIntensity), 0,
                                           -Scaled(zIntensity))]

\* getGravityVector stepping by 1 + smoothingFactor
getGravityVector_overshoot(g) ==
    [g EXCEPT !.currentVector =
        lerp(@, g.targetVector,
             <<g.smoothingFactor[2] + g.smoothingFactor[1], g.smoothingFactor[2]>>)]

\* GravityController.getGravityVector()
getGravityVector(g) ==
    [g EXCEPT !.currentVector = lerp(@, g.targetVector, g.smoothingFactor)]

\* GravityController.reset()
gravityReset(g) ==
    [g EXCEPT !.currentVector = Vector3(0, 0, 0),
              !.targetVector = Vector3(0, 0, 0),
              !.lastBeta = 0,
              !.lastGamma = 0]

\* GravityController.setSmoothing(factor)
setSmoothing(g, factor) == [g EXCEPT !.smoothingFactor = factor]

\* new GravityController()
gravityConstructor ==
    [currentVector |-> Vector3(0, 0, 0), targetVector |-> Vector3(0, 0, 0),
     smoothingFactor |-> defaultSmoothing, lastBeta |-> 0, lastGamma |-> 0]

\* Front-to-back tilts in angle units: -89, 0, 1.5, 45, 80 and 89 degrees
Betas ==
    {-89 * AngleUnit, 0, (3 * AngleUnit) \div 2, 45 * AngleUnit,
     80 * AngleUnit, 89 * AngleUnit}

\* Left-to-right tilts in angle units: -45, 0, 1.5, 45 and 90 degrees
Gammas ==
    {-45 * AngleUnit, 0, (3 * AngleUnit) \div 2, 45 * AngleUnit, 90 * AngleUnit}

\* Smoothing factors in (0, 1]: the default 0.15, and 1.0
SmoothingFactors == {defaultSmoothing, <<1, 1>>}

GravityCalled(op, beta, gamma) ==
    gravityCall' = [op |-> op, beta |-> beta, gamma |-> gamma]

InitGravity ==
    /\ currentVector = gravityConstructor.currentVector
    /\ targetVector = gravityConstructor.targetVector
    /\ smoothingFactor = gravityConstructor.smoothingFactor
    /\ lastBeta = gravityConstructor.lastBeta
    /\ lastGamma = gravityConstructor.lastGamma
    /\ gravityCall = [op |-> "constructor", beta |-> 0, gamma |-> 0]

----------------------------------------------------------------------------
(* PhysicsWorld.                                                           *)
(* Body positions are whole physics units (PHYSICS_SCALE per world unit)   *)
(* and velocities are counted in 1/VelocityUnit.  Matter.Engine.update is  *)
(* the library's: what it leaves in the hero body is an input of update.   *)

VelocityUnit == 1

PHYSICS_SCALE == 10
maxSpeed == 15

\* v.x * v.x + v.y * v.y
SpeedSquared(v) == v[1] * v[1] + v[2] * v[2]

\* Math.sqrt, rounded down
Sqrt(n) == CHOOSE r \in 0..n : r * r <= n /\ n < (r + 1) * (r + 1)

Physics == [engineGravity |-> engineGravity, heroBody |-> heroBody]

CommitPhysics(p) ==
    /\ engineGravity' = p.engineGravity
    /\ heroBody' = p.heroBody

\* Matter.Body.setVelocity, setPosition and setAngularVelocity
setVelocity(body, velocity) == [body EXCEPT !.velocity = velocity]
setPosition(body, position) == [body EXCEPT !.position = position]
setAngularVelocity(body, velocity) == [body EXCEPT !.angularVelocity = velocity]

\* the hero body with the velocity beyond maxSpeed rescaled to maxSpeed
ClampVelocity(body) ==
    LET velocity == body.velocity
        speed == Sqrt(SpeedSquared(velocity))
        limit == maxSpeed * VelocityUnit
    IN  IF SpeedSquared(velocity) > limit * limit
        THEN setVelocity(body, <<MulFrac(velocity[1], <<limit, speed>>),
                                 MulFrac(velocity[2], <<limit, speed>>)>>)
        ELSE body

\* update without the velocity clamp
physicsUpdate_noClamp(p, gravityVector, stepped) ==
    [p EXCEPT !.engineGravity = <<gravityVector.x, gravityVector.z>>,
              !.heroBody = IF @ = <<>> THEN <<>> ELSE <<stepped>>]

\* PhysicsWorld.update(deltaTime, gravityVector), where stepped is the hero
\* body as Matter.Engine.update(this.engine, deltaTime) leaves it
physicsUpdate(p, gravityVector, stepped) ==
    [p EXCEPT !.engineGravity = <<gravityVector.x, gravityVector.z>>,
              !.heroBody = IF @ = <<>> THEN <<>> ELSE <<ClampVelocity(stepped)>>]

\* PhysicsWorld.addHeroSphere(mesh), for a mesh at world position
\* (meshPosition[1], 0.5, meshPosition[2]) in 1/PositionUnit
addHeroSphere(p, meshPosition) ==
    [p EXCEPT !.heroBody =
        <<[position |-> <<(meshPosition[1] * PHYSICS_SCALE) \div PositionUnit,
                          (meshPosition[2] * PHYSICS_SCALE) \div PositionUnit>>,
           velocity |-> <<0, 0>>,
           angularVelocity |-> 0]>>]

\* new PhysicsWorld()
physicsConstructor == [engineGravity |-> <<0, 0>>, heroBody |-> <<>>]

\* Velocities an engine step leaves, in units of VelocityUnit: at rest, below
\* maxSpeed, at maxSpeed, and above it at speeds 20, 25, 17 and 45 (speeds
\* whose rescaling to maxSpeed is exact)
StepVelocities ==
    {<<0, 0>>, <<3 * VelocityUnit, -4 * VelocityUnit>>,
     <<9 * VelocityUnit, 12 * VelocityUnit>>,
     <<-15 * VelocityUnit, 0>>,
     <<12 * VelocityUnit, 16 * VelocityUnit>>,
     <<-20 * VelocityUnit, 15 * VelocityUnit>>,
     <<0, -17 * VelocityUnit>>,
     <<-27 * VelocityUnit, -36 * VelocityUnit>>}

\* Positions an engine step leaves, inside the walls
StepPositions == {<<0, 0>>, <<50, -30>>, <<-95, 95>>}

\* Angular velocities an engine step leaves, in hundredths of a radian
StepAngularVelocities == {0, 5}

\* Gravity vectors handed to update
StepGravities ==
    {Vector3(0, 0, 0), Vector3(Scaled(<<1, 1>>), 0, -Scaled(<<1, 1>>)),
     Vector3(-Scaled(<<1, 2>>), 0, 0)}

PhysicsCalled(op, stepVelocity) ==
    physicsCall' = [op |-> op, stepVelocity |-> stepVelocity]

InitPhysics ==
    /\ engineGravity = physicsConstructor.engineGravity
    /\ heroBody = physicsConstructor.heroBody
    /\ physicsCall = [op |-> "constructor", stepVelocity |-> <<0, 0>>]

----------------------------------------------------------------------------
(* DeviceInputManager and the permission button of main.                   *)
(* The platform is one of: no DeviceOrientationEvent at all; the event     *)
(* without a requestPermission function; the event with one, whose answer  *)
(* arrives later.  The keyboard controls (debugMode) are left out.         *)

MaxRequests == 3

Platforms == {"unsupported", "noRequestFunction", "promptable"}

\* what DeviceOrientationEvent.requestPermission() can do: resolve with
\* 'granted', resolve with anything else, or reject
Responses == {"granted", "denied", "throws"}

Input ==
    [state |-> inputState, fallbackListeners |-> fallbackListeners,
     orientationListeners |-> orientationListeners,
     capabilityTimer |-> capabilityTimer, pendingRequest |-> pendingRequest,
     return |-> "none"]

CommitInput(m) ==
    /\ inputState' = m.state
    /\ fallbackListeners' = m.fallbackListeners
    /\ orientationListeners' = m.orientationListeners
    /\ capabilityTimer' = m.capabilityTimer
    /\ pendingRequest' = m.pendingRequest

\* DeviceInputManager.enableMouseFallback()
enableMouseFallback(m) ==
    [m EXCEPT !.state.usingFallback = TRUE,
              !.fallbackListeners = @ + 1]

\* handleDenial without the fallback
handleDenial_noFallback(m) == m

\* DeviceInputManager.handleDenial()
handleDenial(m) == enableMouseFallback(m)

\* DeviceInputManager.startListening()
startListening(m) == [m EXCEPT !.orientationListeners = @ + 1]

\* DeviceInputManager.detectCapabilities()
detectCapabilities(m, p) ==
    IF p # "unsupported"
    THEN [m EXCEPT !.state.isSupported = TRUE, !.capabilityTimer = TRUE]
    ELSE enableMouseFallback(m)

\* the timeout callback of detectCapabilities
capabilityTimeout(m) ==
    LET fired == [m EXCEPT !.capabilityTimer = FALSE]
    IN  IF ~m.state.permissionGranted /\ ~m.state.usingFallback
        THEN enableMouseFallback(fired)
        ELSE fired

\* new DeviceInputManager(gravityCallback)
inputConstructor(p) ==
    detectCapabilities(
        [state |-> [isSupported |-> FALSE, permissionGranted |-> FALSE,
                    usingFallback |-> FALSE],
         fallbackListeners |-> 0, orientationListeners |-> 0,
         capabilityTimer |-> FALSE, pendingRequest |-> FALSE,
         return |-> "none"], p)

\* DeviceInputManager.requestPermission() up to its await: with no
\* DeviceOrientationEvent the typeof test throws a ReferenceError and the
\* promise rejects
requestPermission(m, p) ==
    CASE p = "unsupported" -> [m EXCEPT !.return = "rejected"]
      [] p = "noRequestFunction" ->
            [startListening([m EXCEPT !.state.permissionGranted = TRUE])
                EXCEPT !.return = "true"]
      [] OTHER -> [m EXCEPT !.pendingRequest = TRUE]

\* DeviceInputManager.requestPermission() after its await
requestPermissionAnswered(m, response) ==
    LET answered == [m EXCEPT !.pendingRequest = FALSE]
    IN  IF response = "granted"
        THEN [startListening([answered EXCEPT !.state.permissionGranted = TRUE])
                EXCEPT !.return = "true"]
        ELSE [handleDenial(answered) EXCEPT !.return = "false"]

\* the deviceorientation listeners, for an event with the angles sample
\* (<<>> when beta or gamma is null)
deviceorientation(g, listeners, sample) ==
    IF listeners = 0 \/ sample = <<>>
    THEN g
    ELSE gravityUpdate(g, sample[1], sample[2])

\* the mouseup listeners: this.callback(0, 0), once for each listener
mouseup(g, listeners) ==
    IF listeners = 0 THEN g ELSE gravityUpdate(g, 0, 0)

\* Device orientation events: null angles, and a forward tilt
OrientationSamples == {<<>>, <<MAX_TILT_ANGLE * AngleUnit, 0>>}

InputCalled(op, response, return, callbacks) ==
    inputCall' = [op |-> op, response |-> response, return |-> return,
                  callbacks |-> callbacks]

\* no input manager has been constructed
InitInputIdle ==
    /\ platform = "unsupported"
    /\ inputState = [isSupported |-> FALSE, permissionGranted |-> FALSE,
                     usingFallback |-> FALSE]
    /\ fallbackListeners = 0
    /\ orientationListeners = 0
    /\ capabilityTimer = FALSE
    /\ pendingRequest = FALSE
    /\ requests = 0
    /\ permissionButton = FALSE
    /\ buttonTimer = FALSE
    /\ inputCall = [op |-> "none", response |-> "none", return |-> "none",
                    callbacks |-> 0]

\* main after createPermissionButton(), on one of the platforms
InitInput ==
    /\ platform \in Platforms
    /\ inputState = inputConstructor(platform).state
    /\ fallbackListeners = inputConstructor(platform).fallbackListeners
    /\ orientationListeners = inputConstructor(platform).orientationListeners
    /\ capabilityTimer = inputConstructor(platform).capabilityTimer
    /\ pendingRequest = FALSE
    /\ requests = 0
    /\ permissionButton = TRUE
    /\ buttonTimer = TRUE
    /\ inputCall = [op |-> "constructor", response |-> "none",
                    return |-> "none", callbacks |-> 0]

\* the game loop has not run
InitGameIdle ==
    /\ heroMesh = <<0, 0>>
    /\ accumulator = 0
    /\ frames = 0
    /\ nextCallback = "animate"
    /\ frameCall = [elapsed |-> 0, slices |-> 0]
    /\ winModal = <<>>
    /\ gameCall = "none"

----------------------------------------------------------------------------
(* The state machine *)

Called(op, dt) == call' = [op |-> op, deltaTime |-> dt]

InitGameState ==
    LET w == constructor(<<>>)
    IN  /\ state = w.state
        /\ score = w.score
        /\ highScore = w.highScore
        /\ goalsCollected = w.goalsCollected
        /\ timeRemaining = w.timeRemaining
        /\ onStateChange = w.onStateChange
        /\ localStorage = w.localStorage
        /\ phases = w.phases
        /\ notified = w.notified
        /\ writes = w.writes
        /\ call = [op |-> "constructor", deltaTime |-> 0]

\* The page is loaded again: a new manager over the storage left behind
Construct ==
    /\ Commit(constructor(localStorage))
    /\ Called("constructor", 0)
    /\ UNCHANGED <<goalVars, gravityVars, physicsVars, inputVars, gameVars>>

SetStateChangeCallback ==
    /\ Commit(setStateChangeCallback(Enter))
    /\ Called("setStateChangeCallback", 0)
    /\ UNCHANGED <<goalVars, gravityVars, physicsVars, inputVars, gameVars>>

StartGame ==
    /\ Commit(startGame(Enter))
    /\ Called("startGame", 0)
    /\ UNCHANGED <<goalVars, gravityVars, physicsVars, inputVars, gameVars>>

Reset ==
    /\ Commit(reset(Enter))
    /\ Called("reset", 0)
    /\ UNCHANGED <<goalVars, gravityVars, physicsVars, inputVars, gameVars>>

Update ==
    \E deltaTime \in DeltaTimes :
        /\ Commit(update(Enter, deltaTime))
        /\ Called("update", deltaTime)
        /\ UNCHANGED <<goalVars, gravityVars, physicsVars, inputVars, gameVars>>

OnGoalCollected ==
    /\ Commit(onGoalCollected(Enter))
    /\ Called("onGoalCollected", 0)
    /\ UNCHANGED <<goalVars, gravityVars, physicsVars, inputVars, gameVars>>

\* The manager on its own: no goal system has been constructed
Init ==
    /\ InitGameState
    /\ goals = <<>>
    /\ goalCall = [op |-> "none", heroPosition |-> <<0, 0>>]
    /\ goalReturn = <<>>
    /\ InitGravity
    /\ InitPhysics
    /\ InitInputIdle
    /\ InitGameIdle

Next ==
    \/ Construct
    \/ SetStateChangeCallback
    \/ StartGame
    \/ Reset
    \/ Update
    \/ OnGoalCollected

Spec == Init /\ [][Next]_vars

----------------------------------------------------------------------------
(* Properties of the gameplay state machine *)

\* The fields a caller can observe, without the per-call logs
Fields(w) ==
    <<w.state, w.score, w.highScore, w.goalsCollected, w.timeRemaining,
      w.onStateChange, w.localStorage>>

ResettingOps == {"reset", "startGame", "constructor"}

\* C1: while the phase is READY, WIN or GAME_OVER, update(dt) and
\* onGoalCollected() leave phase, score, goalsCollected, timeRemaining,
\* highScore and the stored high score unchanged and invoke no observer;
\* outside PLAYING only an operation that runs reset() changes these fields.
C1_NoOpOutsidePlaying ==
    [][ state # "PLAYING" =>
          /\ call'.op \in {"update", "onGoalCollected"} =>
                /\ state' = state
                /\ score' = score
                /\ goalsCollected' = goalsCollected
                /\ timeRemaining' = timeRemaining
                /\ highScore' = highScore
                /\ localStorage' = localStorage
                /\ notified' = <<>>
          /\ <<state', score', goalsCollected', timeRemaining'>>
                 # <<state, score, goalsCollected, timeRemaining>>
               => call'.op \in ResettingOps
      ]_vars

C1_Witness ==
    /\ state = "WIN"
    /\ call.op = "update"
    /\ call.deltaTime > 0
    /\ onStateChange

\* C2: the phase moves only along READY->PLAYING (startGame), PLAYING->WIN
\* (onGoalCollected), PLAYING->GAME_OVER (update) and any->READY (a reset(),
\* also the one inside startGame or the constructor); it is never PAUSED.
AllowedEdge(from, to, op) ==
    \/ from = to
    \/ from = "READY" /\ to = "PLAYING" /\ op = "startGame"
    \/ from = "PLAYING" /\ to = "WIN" /\ op = "onGoalCollected"
    \/ from = "PLAYING" /\ to = "GAME_OVER" /\ op = "update"
    \/ to = "READY" /\ op \in ResettingOps

C2_PhaseEdges ==
    /\ [](state # "PAUSED")
    /\ [][ /\ call'.op # "constructor" => phases'[1] = state
           /\ phases'[Len(phases')] = state'
           /\ \A i \in 1..(Len(phases') - 1) :
                 AllowedEdge(phases'[i], phases'[i + 1], call'.op)
       ]_vars

C2_Witness ==
    /\ call.op = "startGame"
    /\ phases = <<"GAME_OVER", "READY", "PLAYING">>

\* C3: onGoalCollected() while PLAYING with timeRemaining = T adds 1 to
\* goalsCollected and 100 + floor(2T) to score; if goalsCollected thereby
\* reaches 10 it adds floor(10T) more and the phase becomes WIN in the same
\* call; below 10 the phase stays PLAYING.
C3_GoalAward ==
    [][ (state = "PLAYING" /\ call'.op = "onGoalCollected") =>
          LET award == 100 + ((2 * timeRemaining) \div TicksPerSecond)
              bonus == (10 * timeRemaining) \div TicksPerSecond
          IN  /\ goalsCollected' = goalsCollected + 1
              /\ timeRemaining' = timeRemaining
              /\ goalsCollected' = 10 =>
                    /\ score' = score + award + bonus
                    /\ state' = "WIN"
              /\ goalsCollected' < 10 =>
                    /\ score' = score + award
                    /\ state' = "PLAYING"
      ]_vars

\* the tenth goal, at a time whose tenfold is not a whole number
C3_Witness ==
    /\ call.op = "onGoalCollected"
    /\ state = "WIN"
    /\ goalsCollected = 10
    /\ (10 * timeRemaining) % TicksPerSecond # 0

\* C4: update(dt) while PLAYING subtracts dt from timeRemaining; a result
\* <= 0 is replaced by exactly 0 and the phase becomes GAME_OVER in the same
\* call; otherwise the phase stays PLAYING.
C4_Countdown ==
    [][ (state = "PLAYING" /\ call'.op = "update") =>
          LET left == timeRemaining - call'.deltaTime
          IN  IF left <= 0
              THEN timeRemaining' = 0 /\ state' = "GAME_OVER"
              ELSE timeRemaining' = left /\ state' = "PLAYING"
      ]_vars

\* the clock ran out by a step that overshoots zero
C4_Witness ==
    /\ call.op = "update"
    /\ state = "GAME_OVER"
    /\ call.deltaTime > 0
    /\ call.deltaTime < TimeLimitTicks
    /\ timeRemaining = 0

\* C5: an update(dt) made while PLAYING never raises timeRemaining, and
\* timeRemaining is never below 0 nor above the time limit.
C5_TimeBounded ==
    /\ [](0 <= timeRemaining /\ timeRemaining <= TIME_LIMIT * TicksPerSecond)
    /\ [][ (state = "PLAYING" /\ call'.op = "update") =>
              timeRemaining' <= timeRemaining ]_vars

C5_Witness ==
    /\ call.op = "update"
    /\ call.deltaTime > 0
    /\ state = "PLAYING"
    /\ 0 < timeRemaining
    /\ timeRemaining < TimeLimitTicks

\* C6: update() and onGoalCollected() never lower goalsCollected; it is
\* lowered only by an operation that runs reset(), and then to 0.
C6_GoalsMonotone ==
    [][ /\ call'.op \in {"update", "onGoalCollected"} =>
              goalsCollected' >= goalsCollected
        /\ goalsCollected' < goalsCollected =>
              (call'.op \in ResettingOps /\ goalsCollected' = 0)
      ]_vars

\* a reset() that took a won game's ten goals back to zero
C6_Witness ==
    /\ call.op = "reset"
    /\ phases[1] = "WIN"
    /\ goalsCollected = 0

\* C7: startGame() in any phase ends with phase PLAYING, score 0,
\* goalsCollected 0 and the full time limit, and leaves highScore alone.
C7_StartGame ==
    [][ call'.op = "startGame" =>
          /\ state' = "PLAYING"
          /\ score' = 0
          /\ goalsCollected' = 0
          /\ timeRemaining' = TIME_LIMIT * TicksPerSecond
          /\ highScore' = highScore
      ]_vars

C7_Witness ==
    /\ call.op = "startGame"
    /\ phases[1] = "WIN"
    /\ highScore > 0

\* C8: reset() in any reachable state yields phase READY, score 0,
\* goalsCollected 0 and the full time limit with highScore unchanged, and a
\* second reset() right after it leaves every field as the first left it.
C8_ResetIdempotent ==
    [][ call'.op = "reset" =>
          /\ state' = "READY"
          /\ score' = 0
          /\ goalsCollected' = 0
          /\ timeRemaining' = TIME_LIMIT * TicksPerSecond
          /\ highScore' = highScore
          /\ Fields(reset(World')) = Fields(World')
      ]_vars

C8_Witness ==
    /\ call.op = "reset"
    /\ phases[1] = "GAME_OVER"
    /\ highScore > 0

\* The values of a sequence that differ from their predecessor
RECURSIVE Changes(_)
Changes(seq) ==
    IF Len(seq) < 2 THEN <<>>
    ELSE IF seq[Len(seq)] # seq[Len(seq) - 1]
         THEN Append(Changes(SubSeq(seq, 1, Len(seq) - 1)), seq[Len(seq)])
         ELSE Changes(SubSeq(seq, 1, Len(seq) - 1))

\* C9 as stated: with an observer registered, the observer is invoked exactly
\* once per change of phase, with the new phase, and never by an operation
\* that leaves the phase as it was.
C9_NotifiedOncePerChange ==
    onStateChange => notified = Changes(phases)

\* C9 as amended: with an observer registered, update() and onGoalCollected()
\* invoke it once with the new phase when they change the phase and not at
\* all otherwise; reset() invokes it once with READY on every call, also when
\* the phase was READY already; startGame() invokes it with READY and then
\* with PLAYING.
C9_Notifications ==
    onStateChange =>
        notified =
            CASE call.op \in {"update", "onGoalCollected"} ->
                     IF state # phases[1] THEN <<state>> ELSE <<>>
              [] call.op = "reset" -> <<"READY">>
              [] call.op = "startGame" -> <<"READY", "PLAYING">>
              [] OTHER -> <<>>

\* reset() while READY, with an observer registered
C9_Witness ==
    /\ onStateChange
    /\ call.op = "reset"
    /\ phases = <<"READY", "READY">>
    /\ notified = <<"READY">>

\* C10: on entering WIN, highScore is overwritten and stored exactly when
\* the final score (time bonus included) is strictly greater than it, and it
\* is written by nothing else; so highScore never decreases and is at least
\* the score of every game that was won.
EnteringWin == state = "PLAYING" /\ state' = "WIN"

C10_HighScore ==
    /\ [](state = "WIN" => highScore >= score)
    /\ [][ /\ highScore' >= highScore
           /\ EnteringWin =>
                 IF score' > highScore
                 THEN /\ highScore' = score'
                      /\ writes' = <<toString(score')>>
                      /\ HasItem(localStorage', HIGHSCORE_KEY)
                      /\ parseInt(localStorage'[HIGHSCORE_KEY]) = score'
                 ELSE /\ highScore' = highScore
                      /\ writes' = <<>>
                      /\ localStorage' = localStorage
           /\ ~EnteringWin =>
                 /\ writes' = <<>>
                 /\ localStorage' = localStorage
                 /\ call'.op # "constructor" => highScore' = highScore
       ]_vars

\* a game won with exactly the high score: nothing is written
C10_Witness ==
    /\ state = "WIN"
    /\ call.op = "onGoalCollected"
    /\ score = highScore
    /\ writes = <<>>

----------------------------------------------------------------------------
(* GoalSystem and CollisionDetector.                                       *)
(* Positions are pairs <<x, z>> on the ground plane, counted in            *)
(* 1/PositionUnit world units.  Math.random() is a fraction <<n, d>> in    *)
(* [0, 1).  The mesh animation of update (rotation, pulse) is left out.    *)


WORLD_SIZE == 20
MIN_EDGE_DIST == 3
GOAL_RADIUS == 1
maxAttempts == 20
collectionThreshold == <<7, 10>>
fallbackPosition == <<0, -5 * PositionUnit>>

\* Values of Math.random(): 0, 1/2 and 199/200
RandomDraws == {<<0, 1>>, <<1, 2>>, <<199, 200>>}

\* Hero positions handed to update: the origin, just inside and just on the
\* trigger circle of a goal at the origin, and a far corner
HeroPositions ==
    {<<0, 0>>,
     <<(7 * PositionUnit) \div 10 - 1, 0>>,
     <<(7 * PositionUnit) \div 10, 0>>,
     <<-7 * PositionUnit, -7 * PositionUnit>>}

\* CollisionDetector.checkGoalEntry: distSq < (goalRadius * threshold)^2
checkGoalEntry(heroPos, goalPos, goalRadius, threshold) ==
    LET dx == heroPos[1] - goalPos[1]
        dz == heroPos[2] - goalPos[2]
        distSq == dx * dx + dz * dz
    IN  distSq * threshold[2] * threshold[2]
            < (goalRadius * threshold[1]) * (goalRadius * threshold[1])

\* (Math.random() - 0.5) * spawnRange
SpawnCoordinate(r) ==
    LET spawnRange == (WORLD_SIZE - MIN_EDGE_DIST * 2) * PositionUnit
    IN  ((2 * r[1] - r[2]) * spawnRange) \div (2 * r[2])

GoalIds(gs) == {gs[i].id : i \in 1..Len(gs)}

\* The identity of a newly allocated goal object: none of those in gs
FreshId(gs) == CHOOSE i \in 0..Len(gs) : i \notin GoalIds(gs)

\* spawnGoal whose loop body is never entered, so that the fallback is used
spawnGoal_fallbackOnly(gs, fresh, rx, rz) ==
    Append(gs, [position |-> fallbackPosition,
                radius |-> GOAL_RADIUS * PositionUnit,
                wasColliding |-> FALSE,
                id |-> fresh])

spawnGoal(gs, fresh, rx, rz) ==
    LET \* the loop leaves at the break of its first pass
        attempt == <<SpawnCoordinate(rx), SpawnCoordinate(rz)>>
        found == IF 0 < maxAttempts THEN <<attempt>> ELSE <<>>
        position == IF found = <<>> THEN fallbackPosition ELSE found[1]
    IN  Append(gs, [position |-> position,
                    radius |-> GOAL_RADIUS * PositionUnit,
                    wasColliding |-> FALSE,
                    id |-> fresh])

\* this.goals.splice(index, 1), index counted from 1
Splice(gs, index) ==
    SubSeq(gs, 1, index - 1) \o SubSeq(gs, index + 1, Len(gs))

IsColliding(g, heroPosition) ==
    checkGoalEntry(heroPosition, g.position, g.radius, collectionThreshold)

\* the index (from 1) the forEach leaves in collectedGoalIndex, 0 for null
CollectedIndex(gs, heroPosition) ==
    LET hits == {i \in 1..Len(gs) :
                    IsColliding(gs[i], heroPosition) /\ ~gs[i].wasColliding}
    IN  IF hits = {} THEN 0 ELSE CHOOSE i \in hits : \A j \in hits : j <= i

\* update that removes the collected goal and spawns no replacement
goalUpdate_noRespawn(gs, heroPosition, rx, rz) ==
    LET index == CollectedIndex(gs, heroPosition)
        marked == [i \in 1..Len(gs) |->
                      [gs[i] EXCEPT !.wasColliding =
                                        IsColliding(gs[i], heroPosition)]]
    IN  IF index = 0
        THEN [goals |-> marked, return |-> <<>>]
        ELSE [goals |-> Splice(marked, index), return |-> <<index - 1>>]

\* update that reports the collected goal and leaves it in place
goalUpdate_noRemoval(gs, heroPosition, rx, rz) ==
    LET index == CollectedIndex(gs, heroPosition)
        marked == [i \in 1..Len(gs) |->
                      [gs[i] EXCEPT !.wasColliding =
                                        IsColliding(gs[i], heroPosition)]]
    IN  [goals |-> marked,
         return |-> IF index = 0 THEN <<>> ELSE <<index - 1>>]

\* GoalSystem.update(deltaTime, heroPosition, scene)
goalUpdate(gs, heroPosition, rx, rz) ==
    LET index == CollectedIndex(gs, heroPosition)
        marked == [i \in 1..Len(gs) |->
                      [gs[i] EXCEPT !.wasColliding =
                                        IsColliding(gs[i], heroPosition)]]
    IN  IF index = 0
        THEN [goals |-> marked, return |-> <<>>]
        ELSE [goals |-> spawnGoal(Splice(marked, index), FreshId(gs), rx, rz),
              return |-> <<index - 1>>]

\* GoalSystem.reset(scene)
goalReset(gs, rx, rz) == spawnGoal(<<>>, FreshId(gs), rx, rz)

\* new GoalSystem(scene, collisionDetector)
goalConstructor(rx, rz) == spawnGoal(<<>>, 0, rx, rz)

GoalCalled(op, heroPosition) ==
    goalCall' = [op |-> op, heroPosition |-> heroPosition]

InitGoals ==
    \E rx \in RandomDraws, rz \in RandomDraws :
        /\ goals = goalConstructor(rx, rz)
        /\ goalCall = [op |-> "constructor", heroPosition |-> <<0, 0>>]
        /\ goalReturn = <<>>

GoalUpdate ==
    \E heroPosition \in HeroPositions, rx \in RandomDraws, rz \in RandomDraws :
        LET r == goalUpdate(goals, heroPosition, rx, rz)
        IN  /\ goals' = r.goals
            /\ goalReturn' = r.return
            /\ GoalCalled("update", heroPosition)
            /\ UNCHANGED <<gsmVars, gravityVars, physicsVars, inputVars, gameVars>>

GoalReset ==
    \E rx \in RandomDraws, rz \in RandomDraws :
        /\ goals' = goalReset(goals, rx, rz)
        /\ goalReturn' = <<>>
        /\ GoalCalled("reset", <<0, 0>>)
        /\ UNCHANGED <<gsmVars, gravityVars, physicsVars, inputVars, gameVars>>

InitGoalSystem ==
    /\ InitGameState /\ InitGoals /\ InitGravity /\ InitPhysics
    /\ InitInputIdle /\ InitGameIdle

NextGoals == GoalUpdate \/ GoalReset

SpecGoals == InitGoalSystem /\ [][NextGoals]_vars

----------------------------------------------------------------------------
(* Properties of the goal system *)

\* C11: while the hero position stays within the trigger radius of the
\* active goal over consecutive update calls, only the first of those calls
\* returns a collection event and the following ones return null.
C11_OneEventWhileInside ==
    [][ ( /\ goalCall.op = "update"
          /\ goalReturn # <<>>
          /\ goalCall'.op = "update"
          /\ Len(goals) = 1
          /\ IsColliding(goals[1], goalCall'.heroPosition) )
        => goalReturn' = <<>>
      ]_vars

\* C12: after the constructor, every update() and every reset() exactly one
\* goal is active; an update() that collects removes the collected goal and
\* has its replacement in place when it returns.
C12_OneGoal ==
    /\ [](Len(goals) = 1)
    /\ [][ (goalCall'.op = "update" /\ goalReturn' # <<>>) =>
              /\ goals[goalReturn'[1] + 1].id \notin GoalIds(goals')
              /\ GoalIds(goals') \cap GoalIds(goals) = {}
       ]_vars

C12_Witness ==
    /\ goalCall.op = "update"
    /\ goalReturn = <<0>>
    /\ Len(goals) = 1

----------------------------------------------------------------------------
(* The gravity controller on its own *)

GravityUpdate ==
    \E beta \in Betas, gamma \in Gammas :
        /\ CommitGravity(gravityUpdate(Gravity, beta, gamma))
        /\ GravityCalled("update", beta, gamma)
        /\ UNCHANGED <<gsmVars, goalVars, physicsVars, inputVars, gameVars>>

GetGravityVector ==
    /\ CommitGravity(getGravityVector(Gravity))
    /\ GravityCalled("getGravityVector", 0, 0)
    /\ UNCHANGED <<gsmVars, goalVars, physicsVars, inputVars, gameVars>>

GravityReset ==
    /\ CommitGravity(gravityReset(Gravity))
    /\ GravityCalled("reset", 0, 0)
    /\ UNCHANGED <<gsmVars, goalVars, physicsVars, inputVars, gameVars>>

SetSmoothing ==
    \E factor \in SmoothingFactors :
        /\ CommitGravity(setSmoothing(Gravity, factor))
        /\ GravityCalled("setSmoothing", 0, 0)
        /\ UNCHANGED <<gsmVars, goalVars, physicsVars, inputVars, gameVars>>

InitGravityController ==
    /\ InitGameState
    /\ goals = <<>>
    /\ goalCall = [op |-> "none", heroPosition |-> <<0, 0>>]
    /\ goalReturn = <<>>
    /\ InitGravity
    /\ InitPhysics
    /\ InitInputIdle
    /\ InitGameIdle

NextGravity ==
    \/ GravityUpdate
    \/ GetGravityVector
    \/ GravityReset
    \/ SetSmoothing

SpecGravity == InitGravityController /\ [][NextGravity]_vars

----------------------------------------------------------------------------
(* Properties of the gravity controller *)

\* v * GRAVITY_MULTIPLIER[2] and GRAVITY_MULTIPLIER, in the same units
TimesDenominator(v) == v * GRAVITY_MULTIPLIER[2]
MultiplierUnits == GRAVITY_MULTIPLIER[1] * GravityScale

\* C13 as stated: the magnitude sqrt(x^2 + z^2) of the target and of the
\* current gravity vector never exceeds GRAVITY_MULTIPLIER.
C13_MagnitudeBounded ==
    \A v \in {targetVector, currentVector} :
        TimesDenominator(v.x) * TimesDenominator(v.x)
          + TimesDenominator(v.z) * TimesDenominator(v.z)
            <= MultiplierUnits * MultiplierUnits

\* C13, amended: each of x and z of the target and of the current gravity
\* vector stays within [-GRAVITY_MULTIPLIER, GRAVITY_MULTIPLIER] whatever the
\* raw angles, so the magnitude never exceeds GRAVITY_MULTIPLIER * sqrt(2).
C13_ComponentsBounded ==
    \A v \in {targetVector, currentVector} :
        /\ Abs(TimesDenominator(v.x)) <= MultiplierUnits
        /\ Abs(TimesDenominator(v.z)) <= MultiplierUnits
        /\ TimesDenominator(v.x) * TimesDenominator(v.x)
             + TimesDenominator(v.z) * TimesDenominator(v.z)
               <= 2 * MultiplierUnits * MultiplierUnits

\* both axes saturated, and the current vector has moved beyond magnitude
\* GRAVITY_MULTIPLIER
C13_Witness ==
    /\ gravityCall.op = "getGravityVector"
    /\ lastBeta >= MAX_TILT_ANGLE * AngleUnit
    /\ lastGamma >= MAX_TILT_ANGLE * AngleUnit
    /\ ~C13_MagnitudeBounded
    /\ TimesDenominator(currentVector.x) * TimesDenominator(currentVector.x)
         + TimesDenominator(currentVector.z) * TimesDenominator(currentVector.z)
           > MultiplierUnits * MultiplierUnits

\* the angle after the deadzone
AfterDeadzone(angle) == IF Abs(angle) < DEADZONE * AngleUnit THEN 0 ELSE angle

\* v is GRAVITY_MULTIPLIER * c / MAX_TILT_ANGLE for the angle c, to within one
\* gravity unit, and has the sign of c
IsGravityOf(v, c) ==
    /\ Abs(v * GRAVITY_MULTIPLIER[2] * MAX_TILT_ANGLE * AngleUnit
             - GRAVITY_MULTIPLIER[1] * GravityScale * c)
          < GRAVITY_MULTIPLIER[2] * MAX_TILT_ANGLE * AngleUnit
    /\ c > 0 => v > 0
    /\ c < 0 => v < 0
    /\ c = 0 => v = 0

C15_Saturation ==
    gravityCall.op = "update" =>
        LET beta == clamp(gravityCall.beta, -MAX_BETA_SAFE * AngleUnit,
                          MAX_BETA_SAFE * AngleUnit)
            gamma == clamp(gravityCall.gamma, -MAX_TILT_ANGLE * AngleUnit,
                           MAX_TILT_ANGLE * AngleUnit)
        IN  targetVector = gravityUpdate(Gravity, beta, gamma).targetVector

\* both angles beyond their limits
C15_Witness ==
    /\ gravityCall.op = "update"
    /\ gravityCall.gamma > MAX_TILT_ANGLE * AngleUnit
    /\ gravityCall.beta > MAX_BETA_SAFE * AngleUnit
    /\ targetVector.x > 0
    /\ targetVector.z < 0

\* the gravity of the controller's tests at full tilt
EarthGravity == <<98, 10>>

\* v is within 0.5 of EarthGravity
NearEarthGravity(v) ==
    2 * Abs(v * EarthGravity[2] - EarthGravity[1] * GravityScale)
        < EarthGravity[2] * GravityScale

\* C16: with smoothing 1.0, the read after update(0, 45) has x ~ 9.8 and the
\* read after update(45, 0) has z ~ -9.8: a tilt of MAX_TILT_ANGLE or more
\* gives a component of magnitude 9.8.
C16_FullTiltIsEarthGravity ==
    [][ ( /\ gravityCall.op = "update"
          /\ smoothingFactor = <<1, 1>>
          /\ gravityCall'.op = "getGravityVector" )
        => /\ gravityCall.gamma >= MAX_TILT_ANGLE * AngleUnit
                => NearEarthGravity(currentVector'.x)
           /\ gravityCall.beta >= MAX_TILT_ANGLE * AngleUnit
                => NearEarthGravity(-currentVector'.z) ]_vars

\* C17: a read moves each component of the current vector toward the target
\* by the fraction smoothingFactor of the remaining difference: for a factor
\* in (0, 1] the component gets no farther from the target and never passes
\* it, the target is left alone, and with factor 1 the current vector is the
\* target after one read.
C17_Smoothing ==
    [][ gravityCall'.op = "getGravityVector" =>
          /\ targetVector' = targetVector
          /\ smoothingFactor = <<1, 1>> => currentVector' = targetVector
          /\ \A c \in {"x", "y", "z"} :
                LET before == targetVector[c] - currentVector[c]
                    after == targetVector[c] - currentVector'[c]
                IN  /\ Abs(after) <= Abs(before)
                    /\ before * after >= 0
                    /\ before # 0 /\ after # 0 =>
                         (before > 0) = (after > 0) ]_vars

\* a read with a factor below 1 has left x strictly between 0 and the target
C17_Witness ==
    /\ gravityCall.op = "getGravityVector"
    /\ smoothingFactor # <<1, 1>>
    /\ targetVector.x > 0
    /\ currentVector.x > 0
    /\ currentVector.x < targetVector.x

----------------------------------------------------------------------------
(* The physics world on its own: the hero sphere is registered once, as    *)
(* main does, and then the world is stepped.                               *)

AddHeroSphere ==
    /\ heroBody = <<>>
    /\ CommitPhysics(addHeroSphere(Physics, <<0, 0>>))
    /\ PhysicsCalled("addHeroSphere", <<0, 0>>)
    /\ UNCHANGED <<gsmVars, goalVars, gravityVars, inputVars, gameVars>>

PhysicsUpdate ==
    \E gravityVector \in StepGravities, position \in StepPositions,
       velocity \in StepVelocities, angularVelocity \in StepAngularVelocities :
        /\ CommitPhysics(physicsUpdate(Physics, gravityVector,
                            [position |-> position, velocity |-> velocity,
                             angularVelocity |-> angularVelocity]))
        /\ PhysicsCalled("update", velocity)
        /\ UNCHANGED <<gsmVars, goalVars, gravityVars, inputVars, gameVars>>

InitPhysicsWorld ==
    /\ InitGameState
    /\ goals = <<>>
    /\ goalCall = [op |-> "none", heroPosition |-> <<0, 0>>]
    /\ goalReturn = <<>>
    /\ InitGravity
    /\ InitPhysics
    /\ InitInputIdle
    /\ InitGameIdle

NextPhysics == AddHeroSphere \/ PhysicsUpdate

SpecPhysics == InitPhysicsWorld /\ [][NextPhysics]_vars

\* v has the direction of s
SameDirection(v, s) ==
    /\ v[1] * s[2] = v[2] * s[1]
    /\ v[1] * s[1] + v[2] * s[2] > 0

\* C18: after update() with a hero body registered, the speed of the hero
\* body is at most maxSpeed whatever velocity the engine step produced; a
\* step velocity above maxSpeed is rescaled to speed maxSpeed in the same
\* direction, and any other step velocity is left as it is.
C18_VelocityClamp ==
    (physicsCall.op = "update" /\ heroBody # <<>>) =>
        LET limit == maxSpeed * VelocityUnit
            velocity == heroBody[1].velocity
            stepVelocity == physicsCall.stepVelocity
        IN  /\ SpeedSquared(velocity) <= limit * limit
            /\ IF SpeedSquared(stepVelocity) > limit * limit
               THEN /\ SpeedSquared(velocity) = limit * limit
                    /\ SameDirection(velocity, stepVelocity)
               ELSE velocity = stepVelocity

\* a step that produced a velocity above maxSpeed, in both components
C18_Witness ==
    /\ physicsCall.op = "update"
    /\ heroBody # <<>>
    /\ SpeedSquared(physicsCall.stepVelocity)
         > maxSpeed * VelocityUnit * maxSpeed * VelocityUnit
    /\ heroBody[1].velocity[1] # 0
    /\ heroBody[1].velocity[2] # 0

----------------------------------------------------------------------------
(* The input manager with main's permission button.  The button starts one *)
(* request at a time; the two 1 s timeouts fire in the order in which they *)
(* were set, the input manager's first.                                    *)

\* btn.onclick up to the await inside requestPermission()
ClickPermissionButton ==
    /\ permissionButton
    /\ ~pendingRequest
    /\ requests < MaxRequests
    /\ LET m == requestPermission(Input, platform)
       IN  /\ CommitInput(m)
           /\ permissionButton' = (m.return # "true")
           /\ InputCalled(IF m.pendingRequest THEN "click" ELSE "requestPermission",
                          "none", m.return, 0)
    /\ requests' = requests + 1
    /\ UNCHANGED <<platform, buttonTimer>>
    /\ UNCHANGED <<gsmVars, goalVars, gravityVars, physicsVars, gameVars>>

\* the platform answers the pending request, and btn.onclick runs to its end
PlatformAnswers ==
    \E response \in Responses :
        /\ pendingRequest
        /\ LET m == requestPermissionAnswered(Input, response)
           IN  /\ CommitInput(m)
               /\ permissionButton' = (permissionButton /\ m.return # "true")
               /\ InputCalled("requestPermission", response, m.return, 0)
        /\ UNCHANGED <<platform, requests, buttonTimer>>
        /\ UNCHANGED <<gsmVars, goalVars, gravityVars, physicsVars, gameVars>>

CapabilityTimeout ==
    /\ capabilityTimer
    /\ CommitInput(capabilityTimeout(Input))
    /\ InputCalled("capabilityTimeout", "none", "none", 0)
    /\ UNCHANGED <<platform, requests, permissionButton, buttonTimer>>
    /\ UNCHANGED <<gsmVars, goalVars, gravityVars, physicsVars, gameVars>>

\* the timeout callback of createPermissionButton
ButtonTimeout ==
    /\ buttonTimer
    /\ ~capabilityTimer
    /\ buttonTimer' = FALSE
    /\ permissionButton' =
          (permissionButton
             /\ ~(inputState.permissionGranted \/ inputState.usingFallback))
    /\ InputCalled("buttonTimeout", "none", "none", 0)
    /\ UNCHANGED <<platform, inputState, fallbackListeners,
                   orientationListeners, capabilityTimer, pendingRequest,
                   requests>>
    /\ UNCHANGED <<gsmVars, goalVars, gravityVars, physicsVars, gameVars>>

\* a deviceorientation event reaches the window
DeviceOrientation ==
    \E sample \in OrientationSamples :
        /\ CommitGravity(deviceorientation(Gravity, orientationListeners, sample))
        /\ GravityCalled(IF orientationListeners = 0 \/ sample = <<>>
                         THEN gravityCall.op ELSE "update",
                         IF orientationListeners = 0 \/ sample = <<>>
                         THEN gravityCall.beta ELSE sample[1],
                         IF orientationListeners = 0 \/ sample = <<>>
                         THEN gravityCall.gamma ELSE sample[2])
        /\ InputCalled("deviceorientation", "none", "none",
                       IF sample = <<>> THEN 0 ELSE orientationListeners)
        /\ UNCHANGED <<platform, inputState, fallbackListeners,
                       orientationListeners, capabilityTimer, pendingRequest,
                       requests, permissionButton, buttonTimer>>
        /\ UNCHANGED <<gsmVars, goalVars, physicsVars, gameVars>>

\* the mouse button is released
MouseUp ==
    /\ CommitGravity(mouseup(Gravity, fallbackListeners))
    /\ GravityCalled(IF fallbackListeners = 0 THEN gravityCall.op ELSE "update",
                     IF fallbackListeners = 0 THEN gravityCall.beta ELSE 0,
                     IF fallbackListeners = 0 THEN gravityCall.gamma ELSE 0)
    /\ InputCalled("mouseup", "none", "none", fallbackListeners)
    /\ UNCHANGED <<platform, inputState, fallbackListeners,
                   orientationListeners, capabilityTimer, pendingRequest,
                   requests, permissionButton, buttonTimer>>
    /\ UNCHANGED <<gsmVars, goalVars, physicsVars, gameVars>>

InitInputManager ==
    /\ InitGameState
    /\ goals = <<>>
    /\ goalCall = [op |-> "none", heroPosition |-> <<0, 0>>]
    /\ goalReturn = <<>>
    /\ InitGravity
    /\ InitPhysics
    /\ InitInput
    /\ InitGameIdle

NextInput ==
    \/ ClickPermissionButton
    \/ PlatformAnswers
    \/ CapabilityTimeout
    \/ ButtonTimeout
    \/ DeviceOrientation
    \/ MouseUp

SpecInput == InitInputManager /\ [][NextInput]_vars

\* C19: when requestPermission() ends in a denial (the platform answers
\* anything but 'granted', or its request throws), it resolves to false with
\* usingFallback = true and permissionGranted still false; and no call of
\* requestPermission() ends with neither permissionGranted nor usingFallback.
C19_DenialFallsBack ==
    inputCall.op = "requestPermission" =>
        /\ inputCall.response \in {"denied", "throws"} =>
              /\ inputCall.return = "false"
              /\ inputState.usingFallback
              /\ ~inputState.permissionGranted
              /\ fallbackListeners > 0
        /\ inputState.permissionGranted \/ inputState.usingFallback

\* the platform's request threw before the capability timeout fired
C19_Witness ==
    /\ inputCall.op = "requestPermission"
    /\ inputCall.response = "throws"
    /\ inputCall.return = "false"
    /\ capabilityTimer
    /\ inputState.usingFallback

----------------------------------------------------------------------------
(* The game: main's wiring of the manager, the gravity controller, the     *)
(* goal system and the physics world.  Particles, sound, camera shake and  *)
(* the HUD are left out.  The two animation-frame callbacks, that of       *)
(* DebugScene.animate and gameLoop, run one after the other in every       *)
(* display frame; events are handled between display frames.  gameLoop is  *)
(* called at least 100 ms (the cap of frameTime) after its last call.      *)

MaxFrames == 3

\* frameTime, in ticks
FrameTicks == TicksPerSecond \div 10

\* FIXED_TIMESTEP is 1000 / 60 ms.  In accumulator units of
\* 1 / (StepsPerSecond * TicksPerSecond) s it is TicksPerSecond, and a tick
\* is StepsPerSecond.
StepsPerSecond == 60
FixedTimestep == TicksPerSecond

\* the one element of a set
Only(S) == CHOOSE x \in S : TRUE

\* A public operation is entered on w
EnterFrom(w) ==
    [w EXCEPT !.phases = <<w.state>>, !.notified = <<>>, !.writes = <<>>]

\* k calls of getGravityVector()
RECURSIVE ReadGravity(_, _)
ReadGravity(g, k) ==
    IF k = 0 THEN g ELSE ReadGravity(getGravityVector(g), k - 1)

\* PhysicsWorld.syncVisuals(): the mesh position of a body
syncVisuals(body) ==
    <<(body.position[1] * PositionUnit) \div PHYSICS_SCALE,
      (body.position[2] * PositionUnit) \div PHYSICS_SCALE>>

Game ==
    [world |-> Enter, gravity |-> Gravity, goals |-> goals,
     physics |-> Physics, heroMesh |-> heroMesh]

\* the restart callback without Matter.Body.setVelocity
restartCallback_keepsVelocity(game, rx, rz) ==
    [world |-> reset(game.world),
     gravity |-> gravityReset(game.gravity),
     goals |-> goalReset(game.goals, rx, rz),
     physics |->
        [game.physics EXCEPT !.heroBody =
            IF @ = <<>> THEN <<>>
            ELSE <<setAngularVelocity(setPosition(@[1], <<0, 0>>), 0)>>],
     heroMesh |-> <<0, 0>>]

\* the callback of gameUI.setRestartCallback
restartCallback(game, rx, rz) ==
    [world |-> reset(game.world),
     gravity |-> gravityReset(game.gravity),
     goals |-> goalReset(game.goals, rx, rz),
     physics |->
        [game.physics EXCEPT !.heroBody =
            IF @ = <<>> THEN <<>>
            ELSE <<setAngularVelocity(
                     setVelocity(setPosition(@[1], <<0, 0>>), <<0, 0>>), 0)>>],
     heroMesh |-> <<0, 0>>]

\* Math.random() in the game: the low end, and the middle
GameRandomDraws == {<<0, 1>>, <<1, 2>>}

\* The hero body after the engine steps of a frame: at rest at the origin,
\* and above maxSpeed at the corner of the spawn range (where a goal of the
\* lowest random draws is)
GameAtRest ==
    [position |-> <<0, 0>>, velocity |-> <<0, 0>>, angularVelocity |-> 0]

GameSteps ==
    {GameAtRest,
     [position |-> <<-7 * PHYSICS_SCALE, -7 * PHYSICS_SCALE>>,
      velocity |-> <<12 * VelocityUnit, 16 * VelocityUnit>>,
      angularVelocity |-> 5]}

\* The hero body after the engine steps of a frame of the given number of
\* slices.  A body at rest stays as it is while no gravity acts on it: the
\* current and the target vector are level, so every slice hands the engine
\* a zero vector.
EngineSteps(p, g, slices) ==
    IF \/ slices = 0
       \/ p.heroBody = <<>>
       \/ /\ p.heroBody[1].velocity = <<0, 0>>
          /\ g.currentVector.x = 0 /\ g.currentVector.z = 0
          /\ g.targetVector.x = 0 /\ g.targetVector.z = 0
    THEN IF p.heroBody = <<>> THEN {GameAtRest} ELSE {p.heroBody[1]}
    ELSE GameSteps

\* Times between two calls of gameLoop, in ticks: the cap of frameTime, and
\* a second (a tab that was in the background)
ElapsedTimes == {FrameTicks, TicksPerSecond}

\* frameTime as if it were not capped
frameTime_uncapped(elapsed) == elapsed

\* Math.min(currentTime - lastTime, 100)
frameTime(elapsed) == IF elapsed < FrameTicks THEN elapsed ELSE FrameTicks

\* Tilts of the device during the game
GameTilts == {<<0, 0>>, <<MAX_TILT_ANGLE * AngleUnit, 0>>}

\* the callback of gameUI.setStartCallback, with the start screen showing
StartClick ==
    /\ nextCallback = "animate"
    /\ state = "READY"
    /\ Commit(startGame(Enter))
    /\ Called("startGame", 0)
    /\ gameCall' = "start"
    /\ UNCHANGED <<heroMesh, accumulator, frames, nextCallback, frameCall, winModal>>
    /\ UNCHANGED <<goalVars, gravityVars, physicsVars, inputVars>>

\* the callback of gameUI.setRestartCallback, from the restart button of
\* the win screen or of the game-over screen
RestartClick ==
    \E rx \in GameRandomDraws, rz \in GameRandomDraws :
        /\ nextCallback = "animate"
        /\ state \in {"WIN", "GAME_OVER"}
        /\ \E game \in {restartCallback(Game, rx, rz)} :
               /\ Commit(game.world)
               /\ CommitGravity(game.gravity)
               /\ goals' = game.goals
               /\ CommitPhysics(game.physics)
               /\ heroMesh' = game.heroMesh
        /\ Called("reset", 0)
        /\ GravityCalled("reset", 0, 0)
        /\ GoalCalled("reset", <<0, 0>>)
        /\ gameCall' = "restart"
        /\ UNCHANGED <<goalReturn, physicsCall, accumulator, frames, nextCallback,
                       frameCall, winModal>>
        /\ UNCHANGED inputVars

\* the callback handed to the input manager
Tilt ==
    \E sample \in GameTilts :
        /\ nextCallback = "animate"
        /\ CommitGravity(gravityUpdate(Gravity, sample[1], sample[2]))
        /\ GravityCalled("update", sample[1], sample[2])
        /\ gameCall' = "tilt"
        /\ UNCHANGED <<heroMesh, accumulator, frames, nextCallback, frameCall, winModal>>
        /\ UNCHANGED <<gsmVars, goalVars, physicsVars, inputVars>>

\* GameUI.showWinScreen(score, timeRemaining): the texts of #win-score and
\* of #win-bonus (without its "+")
showWinScreen(winScore, time) ==
    [score |-> winScore, bonus |-> FloorTimes(time, 100)]

\* The observer main registers with setStateChangeCallback, run for the
\* phases w.notified that the operation on w reported.  It reads the score
\* and the time through the getters when it is called, which is at the end
\* of handleWin.  The game-over modal and the sounds are left out.
stateChangeCallback(modal, w) ==
    IF \E i \in 1..Len(w.notified) : w.notified[i] = "WIN"
    THEN <<showWinScreen(w.score, w.timeRemaining)>>
    ELSE modal

\* the part of gameLoop under "if (gameState.getState() === PLAYING)", for a
\* manager w that is PLAYING
gameplay(w, gs, modal, dt, mesh, rx, rz) ==
    Only({ IF gu.return # <<>>
           THEN Only({ [world |-> collected, goals |-> gu.goals,
                        return |-> gu.return,
                        winModal |-> stateChangeCallback(modal, collected),
                        call |-> [op |-> "onGoalCollected", deltaTime |-> 0]]
                       : collected \in {onGoalCollected(EnterFrom(updated))} })
           ELSE [world |-> updated, goals |-> gu.goals, return |-> gu.return,
                 winModal |-> modal,
                 call |-> [op |-> "update", deltaTime |-> dt]]
           : updated \in {update(EnterFrom(w), dt)},
             gu \in {goalUpdate(gs, mesh, rx, rz)} })

Gameplay(dt, mesh, rx, rz) ==
    \E played \in {gameplay(World, goals, winModal, dt, mesh, rx, rz)} :
        /\ Commit(played.world)
        /\ call' = played.call
        /\ goals' = played.goals
        /\ goalReturn' = played.return
        /\ GoalCalled("update", mesh)
        /\ winModal' = played.winModal

\* DebugScene.animate, the render loop started by debugScene.start(): it
\* reads the gravity vector for the arrow it draws.  Its animation-frame
\* request is made before that of gameLoop, so in every display frame it
\* runs first, and gameLoop follows it with no event handled in between.
Animate ==
    /\ nextCallback = "animate"
    /\ nextCallback' = "gameLoop"
    /\ CommitGravity(getGravityVector(Gravity))
    /\ GravityCalled("getGravityVector", 0, 0)
    /\ gameCall' = "animate"
    /\ UNCHANGED <<heroMesh, accumulator, frames, frameCall, winModal>>
    /\ UNCHANGED <<gsmVars, goalVars, physicsVars, inputVars>>

\* gameLoop, called elapsed ticks after its last call
Frame ==
    \E elapsed \in ElapsedTimes,
       rx \in GameRandomDraws, rz \in GameRandomDraws :
    \E total \in {accumulator + frameTime(elapsed) * StepsPerSecond} :
    \E g \in {ReadGravity(Gravity, total \div FixedTimestep)} :
    \E stepped \in EngineSteps(Physics, Gravity, total \div FixedTimestep) :
    \E p \in {IF total < FixedTimestep THEN Physics
               ELSE physicsUpdate(Physics, g.currentVector, stepped)} :
    \E mesh \in {IF p.heroBody = <<>> THEN heroMesh
                  ELSE syncVisuals(p.heroBody[1])} :
        /\ nextCallback = "gameLoop"
        /\ nextCallback' = "animate"
        /\ frames < MaxFrames
        /\ accumulator' = total % FixedTimestep
        /\ frameCall' = [elapsed |-> elapsed,
                         slices |-> total \div FixedTimestep]
        /\ CommitGravity(g)
        /\ IF total < FixedTimestep THEN UNCHANGED gravityCall
           ELSE GravityCalled("getGravityVector", 0, 0)
        /\ CommitPhysics(p)
        /\ IF total < FixedTimestep THEN UNCHANGED physicsCall
           ELSE PhysicsCalled("update", stepped.velocity)
        /\ heroMesh' = mesh
        /\ IF state = "PLAYING"
           THEN Gameplay(frameTime(elapsed), mesh, rx, rz)
           ELSE UNCHANGED <<gsmVars, goalVars, winModal>>
        /\ frames' = frames + 1
        /\ gameCall' = "frame"
        /\ UNCHANGED inputVars

\* The accumulator after the call of gameLoop that ends main: the time since
\* lastTime was initialised, which is less than a slice.  No time, and a
\* slice less one unit.
BootAccumulators == {0, FixedTimestep - 1}

\* main has run to its end: the observer is registered, the hero sphere is
\* in the physics world, one goal is spawned
InitBoot ==
    /\ LET w == setStateChangeCallback(constructor(<<>>))
       IN  /\ state = w.state
           /\ score = w.score
           /\ highScore = w.highScore
           /\ goalsCollected = w.goalsCollected
           /\ timeRemaining = w.timeRemaining
           /\ onStateChange = w.onStateChange
           /\ localStorage = w.localStorage
           /\ phases = w.phases
           /\ notified = w.notified
           /\ writes = w.writes
    /\ call = [op |-> "setStateChangeCallback", deltaTime |-> 0]
    /\ \E rx \in GameRandomDraws, rz \in GameRandomDraws :
          goals = goalConstructor(rx, rz)
    /\ goalCall = [op |-> "constructor", heroPosition |-> <<0, 0>>]
    /\ goalReturn = <<>>
    /\ InitGravity
    /\ engineGravity = physicsConstructor.engineGravity
    /\ heroBody = addHeroSphere(physicsConstructor, <<0, 0>>).heroBody
    /\ physicsCall = [op |-> "addHeroSphere", stepVelocity |-> <<0, 0>>]
    /\ InitInputIdle
    /\ heroMesh = <<0, 0>>
    /\ accumulator \in BootAccumulators
    /\ frames = 0
    /\ nextCallback = "animate"
    /\ frameCall = [elapsed |-> 0, slices |-> 0]
    /\ winModal = <<>>
    /\ gameCall = "boot"

\* frames of a whole game but one
LateFrames == TimeLimitTicks \div FrameTicks - 1

\* The game one frame before its time runs out: after the boot and the
\* start click, LateFrames frames went by without a tilt, with the hero at
\* rest at the origin and the goal elsewhere.  The updates of those frames
\* add up to one update by LateFrames * FrameTicks.
InitLastFrame ==
    /\ LET booted == setStateChangeCallback(constructor(<<>>))
           started == startGame(EnterFrom(booted))
           w == update(EnterFrom(started), LateFrames * FrameTicks)
       IN  /\ state = w.state
           /\ score = w.score
           /\ highScore = w.highScore
           /\ goalsCollected = w.goalsCollected
           /\ timeRemaining = w.timeRemaining
           /\ onStateChange = w.onStateChange
           /\ localStorage = w.localStorage
           /\ phases = w.phases
           /\ notified = w.notified
           /\ writes = w.writes
    /\ call = [op |-> "update", deltaTime |-> FrameTicks]
    /\ goals = goalUpdate(goalConstructor(<<0, 1>>, <<0, 1>>),
                          <<0, 0>>, <<0, 1>>, <<0, 1>>).goals
    /\ goalCall = [op |-> "update", heroPosition |-> <<0, 0>>]
    /\ goalReturn = <<>>
    /\ currentVector = gravityConstructor.currentVector
    /\ targetVector = gravityConstructor.targetVector
    /\ smoothingFactor = gravityConstructor.smoothingFactor
    /\ lastBeta = gravityConstructor.lastBeta
    /\ lastGamma = gravityConstructor.lastGamma
    /\ gravityCall = [op |-> "getGravityVector", beta |-> 0, gamma |-> 0]
    /\ engineGravity = physicsConstructor.engineGravity
    /\ heroBody = addHeroSphere(physicsConstructor, <<0, 0>>).heroBody
    /\ physicsCall = [op |-> "update", stepVelocity |-> <<0, 0>>]
    /\ InitInputIdle
    /\ heroMesh = <<0, 0>>
    /\ accumulator = (LateFrames * FrameTicks * StepsPerSecond) % FixedTimestep
    /\ frames = 0
    /\ nextCallback = "animate"
    /\ frameCall = [elapsed |-> FrameTicks,
                    slices |-> (FrameTicks * StepsPerSecond) \div FixedTimestep]
    /\ winModal = <<>>
    /\ gameCall = "frame"

\* n frames of FrameTicks from played, in each of which the hero rests at
\* the origin on a goal, and the goal that replaces it is spawned with the
\* draws rx and rz
RECURSIVE CollectAtOrigin(_, _, _, _)
CollectAtOrigin(played, n, rx, rz) ==
    IF n = 0 THEN played
    ELSE Only({ gameplay(prev.world, prev.goals, prev.winModal,
                         FrameTicks, <<0, 0>>, rx, rz)
                : prev \in {CollectAtOrigin(played, n - 1, rx, rz)} })

\* The game one goal before it is won: after the boot with a goal at the
\* origin and the start click, GOALS_REQUIRED - 1 frames went by without a
\* tilt, the hero at rest at the origin; each collected a goal, and each
\* goal but the last was replaced by one at the origin.
InitNinthGoal ==
    /\ \E rx \in GameRandomDraws, rz \in GameRandomDraws :
       \E played \in
          {CollectAtOrigin(
             CollectAtOrigin(
                [world |-> startGame(EnterFrom(
                              setStateChangeCallback(constructor(<<>>)))),
                 goals |-> goalConstructor(<<1, 2>>, <<1, 2>>),
                 winModal |-> <<>>],
                GOALS_REQUIRED - 2, <<1, 2>>, <<1, 2>>),
             1, rx, rz)} :
           /\ state = played.world.state
           /\ score = played.world.score
           /\ highScore = played.world.highScore
           /\ goalsCollected = played.world.goalsCollected
           /\ timeRemaining = played.world.timeRemaining
           /\ onStateChange = played.world.onStateChange
           /\ localStorage = played.world.localStorage
           /\ phases = played.world.phases
           /\ notified = played.world.notified
           /\ writes = played.world.writes
           /\ call = played.call
           /\ goals = played.goals
           /\ goalReturn = played.return
           /\ winModal = played.winModal
    /\ goalCall = [op |-> "update", heroPosition |-> <<0, 0>>]
    /\ currentVector = gravityConstructor.currentVector
    /\ targetVector = gravityConstructor.targetVector
    /\ smoothingFactor = gravityConstructor.smoothingFactor
    /\ lastBeta = gravityConstructor.lastBeta
    /\ lastGamma = gravityConstructor.lastGamma
    /\ gravityCall = [op |-> "getGravityVector", beta |-> 0, gamma |-> 0]
    /\ engineGravity = physicsConstructor.engineGravity
    /\ heroBody = addHeroSphere(physicsConstructor, <<0, 0>>).heroBody
    /\ physicsCall = [op |-> "update", stepVelocity |-> <<0, 0>>]
    /\ InitInputIdle
    /\ heroMesh = <<0, 0>>
    /\ accumulator =
          ((GOALS_REQUIRED - 1) * FrameTicks * StepsPerSecond) % FixedTimestep
    /\ frames = 0
    /\ nextCallback = "animate"
    /\ frameCall = [elapsed |-> FrameTicks,
                    slices |-> (FrameTicks * StepsPerSecond) \div FixedTimestep]
    /\ gameCall = "frame"

InitGame == InitBoot \/ InitNinthGoal \/ InitLastFrame

NextGame ==
    \/ StartClick
    \/ RestartClick
    \/ Tilt
    \/ Animate
    \/ Frame

SpecGame == InitGame /\ [][NextGame]_vars

\* C20: after the restart callback the phase is READY, score and
\* goalsCollected are 0, timeRemaining is TIME_LIMIT, the current and the
\* target gravity vectors are zero, the hero body is at the origin with zero
\* linear and angular velocity, and there is exactly one goal, with
\* wasColliding = false, which is none of the goals of the game before.
C20_Restart ==
    /\ [](gameCall = "restart" =>
            /\ state = "READY"
            /\ score = 0
            /\ goalsCollected = 0
            /\ timeRemaining = TIME_LIMIT * TicksPerSecond
            /\ currentVector = Vector3(0, 0, 0)
            /\ targetVector = Vector3(0, 0, 0)
            /\ heroBody = <<[position |-> <<0, 0>>, velocity |-> <<0, 0>>,
                             angularVelocity |-> 0]>>
            /\ heroMesh = <<0, 0>>
            /\ Len(goals) = 1
            /\ ~goals[1].wasColliding)
    /\ [][gameCall' = "restart" => GoalIds(goals') \cap GoalIds(goals) = {}]_vars

\* a restart from the win screen, with the device tilted and the hero away
\* from the origin and rolling when the button was pressed
C20_Witness ==
    /\ gameCall = "restart"
    /\ highScore > 0
    /\ lastBeta = 0
    /\ gravityCall.op = "reset"
    /\ engineGravity # <<0, 0>>
    /\ SpeedSquared(physicsCall.stepVelocity)
         > maxSpeed * VelocityUnit * maxSpeed * VelocityUnit

\* a restart from the game-over screen
C20_WitnessGameOver ==
    /\ gameCall = "restart"
    /\ highScore = 0
    /\ phases = <<"GAME_OVER", "READY">>

\* C21: in every frame of the game loop in which GoalSystem.update returns a
\* collection event, the manager counts it: goalsCollected increases by 1
\* and score by the goal award (and by the time bonus at the tenth goal),
\* also when gameState.update(dt) has just run in that frame.
C21_CollectionCounted ==
    [][ (gameCall' = "frame" /\ state = "PLAYING" /\ goalReturn' # <<>>) =>
          /\ goalsCollected' = goalsCollected + 1
          /\ score' = score + baseScore
                        + FloorTimes(timeRemaining', speedBonusPerSecond)
                        + (IF goalsCollected' = GOALS_REQUIRED
                           THEN FloorTimes(timeRemaining', TIME_BONUS_MULTIPLIER)
                           ELSE 0) ]_vars

\* C22: the smoothing state of the gravity controller advances once for each
\* physics slice of the game loop and through nothing else: the current
\* vector changes only in a frame of the game loop (or is zeroed by a
\* restart), so the vector handed to PhysicsWorld.update does not depend on
\* the render frames between slices.
C22_SmoothingOncePerSlice ==
    [][ currentVector' # currentVector => gameCall' \in {"frame", "restart"} ]_vars

\* C23: every frame of the game loop adds min(elapsed, 100 ms) to the
\* accumulator and drains it in slices of FIXED_TIMESTEP: what the frame
\* leaves is the old accumulator plus the capped elapsed time less the
\* slices run, at most 6 slices are run whatever the elapsed time, and where
\* the gameplay logic reads the hero position (and between frames)
\* 0 <= accumulator < FIXED_TIMESTEP.
C23_AccumulatorDrained ==
    /\ [](0 <= accumulator /\ accumulator < FixedTimestep)
    /\ [][ gameCall' = "frame" =>
             /\ frameCall'.slices <= 6
             /\ accumulator' + frameCall'.slices * FixedTimestep
                  = accumulator
                    + StepsPerSecond * (IF frameCall'.elapsed < FrameTicks
                                        THEN frameCall'.elapsed
                                        ELSE FrameTicks) ]_vars

\* a frame during play that comes a second after the one before it, with
\* part of a slice left in the accumulator: it runs 6 slices
C23_Witness ==
    /\ gameCall = "frame"
    /\ state = "PLAYING"
    /\ call.op = "update"
    /\ frameCall.elapsed > FrameTicks
    /\ frameCall.slices = 6
    /\ accumulator > 0

\* C24: every goal spawnGoal creates lies within |x| <= 7 and |z| <= 7; its
\* position is that of the one random attempt the loop makes, and the
\* fallback position (0, 0.5, -5) is never used.
C24_SpawnInRange ==
    \A i \in 1..Len(goals) :
        /\ Abs(goals[i].position[1]) <= 7 * PositionUnit
        /\ Abs(goals[i].position[2]) <= 7 * PositionUnit
        /\ \E rx \in RandomDraws, rz \in RandomDraws :
              goals[i].position = <<SpawnCoordinate(rx), SpawnCoordinate(rz)>>
        /\ goals[i].position # fallbackPosition

\* a goal spawned by update at the lowest x and near the highest z a draw
\* can give
C24_Witness ==
    /\ goalCall.op = "update"
    /\ goalReturn # <<>>
    /\ Len(goals) = 1
    /\ goals[1].position[1] = -7 * PositionUnit
    /\ goals[1].position[2] > 6 * PositionUnit

\* C25: between calls of GoalSystem.update every active goal has
\* wasColliding = false; a goal whose collision test is true at a call is
\* collected and removed in that very call, so a replacement spawned around
\* the hero is collected by the next call.
C25_NoGoalStaysInside ==
    /\ [](\A i \in 1..Len(goals) : ~goals[i].wasColliding)
    /\ [][ goalCall'.op = "update" =>
             \A i \in 1..Len(goals) :
                IsColliding(goals[i], goalCall'.heroPosition) =>
                    /\ goalReturn' = <<i - 1>>
                    /\ goals[i].id \notin GoalIds(goals') ]_vars

\* update collected a goal and the replacement spawned around the hero
C25_Witness ==
    /\ goalCall.op = "update"
    /\ goalReturn # <<>>
    /\ Len(goals) = 1
    /\ IsColliding(goals[1], goalCall.heroPosition)
    /\ ~goals[1].wasColliding

\* C26: the phase and the counters agree in every state: WIN implies
\* goalsCollected = 10 and timeRemaining > 0, GAME_OVER implies
\* timeRemaining = 0 and goalsCollected < 10, PLAYING implies
\* timeRemaining > 0 and goalsCollected < 10, and goalsCollected is never
\* more than 10.
C26_PhaseAgreesWithCounters ==
    /\ state = "WIN" => goalsCollected = 10 /\ timeRemaining > 0
    /\ state = "GAME_OVER" => timeRemaining = 0 /\ goalsCollected < 10
    /\ state = "PLAYING" => timeRemaining > 0 /\ goalsCollected < 10
    /\ goalsCollected <= 10

\* the game was won by the tenth goal after part of the time had gone by
C26_Witness ==
    /\ state = "WIN"
    /\ call.op = "onGoalCollected"
    /\ timeRemaining < TimeLimitTicks
    /\ goalsCollected = GOALS_REQUIRED

----------------------------------------------------------------------------
(* A game that is played to its end: the start button is pressed on the    *)
(* start screen, and then the game loop calls update(dt) and, when a goal  *)
(* was collected, onGoalCollected().  The restart button is not pressed.   *)
(* gameLoop requests its next animation frame at the end of every call, so *)
(* frames keep coming; those in which time went by (dt > 0) are the ones   *)
(* the fairness condition is about.                                        *)

TimeGoesBy == Update /\ call'.deltaTime > 0

NextPlay ==
    \/ StartClick
    \/ Update
    \/ OnGoalCollected

SpecPlay == Init /\ [][NextPlay]_vars /\ WF_vars(TimeGoesBy)

\* C27: a started game ends: from PLAYING the phase eventually becomes WIN
\* or GAME_OVER.  While the game is being played every update(dt) takes dt
\* off timeRemaining, which starts at TIME_LIMIT = 60 s and stays positive,
\* so the game ends before the deltaTime of its frames adds up to more than
\* 60 s.
C27_GameEnds ==
    /\ (state = "PLAYING") ~> (state \in {"WIN", "GAME_OVER"})
    /\ [](state = "PLAYING" =>
             0 < timeRemaining /\ timeRemaining <= TIME_LIMIT * TicksPerSecond)
    /\ [][ (state = "PLAYING" /\ call'.op = "update") =>
             \/ /\ state' = "PLAYING"
                /\ timeRemaining' = timeRemaining - call'.deltaTime
             \/ /\ state' = "GAME_OVER"
                /\ timeRemaining <= call'.deltaTime ]_vars

\* the time ran out in a game in which goals were collected
C27_Witness ==
    /\ state = "GAME_OVER"
    /\ call.op = "update"
    /\ call.deltaTime < TIME_LIMIT * TicksPerSecond
    /\ goalsCollected > 0
    /\ gameCall = "start"

\* C28: the hero body moves only during play: a frame of the game loop
\* outside PLAYING leaves the hero body as it is, and when the start
\* callback puts the game into PLAYING the hero is at the origin with zero
\* velocity, whatever input arrived before.
C28_HeroMovesOnlyInPlay ==
    /\ [][ (gameCall' = "frame" /\ state # "PLAYING") =>
             heroBody' = heroBody ]_vars
    /\ [][ gameCall' = "start" =>
             /\ state' = "PLAYING"
             /\ heroBody' # <<>>
             /\ heroBody'[1].position = <<0, 0>>
             /\ heroBody'[1].velocity = <<0, 0>> ]_vars

\* C29: the bonus the win screen shows is the time bonus handleWin added to
\* the score: when WIN is reached with timeRemaining T, showWinScreen
\* writes floor(T * 10).
C29_ShownBonusIsAddedBonus ==
    [][ (state = "PLAYING" /\ state' = "WIN") =>
          /\ winModal' # <<>>
          /\ winModal'[1].score = score'
          /\ winModal'[1].bonus
               = FloorTimes(timeRemaining', TIME_BONUS_MULTIPLIER) ]_vars

\* C30: the fallback listeners are installed at most once, whatever the
\* order of the capability timeout and of the answers to the permission
\* requests, so a pointer release invokes the gravity callback once (and
\* not at all while no fallback is installed).
C30_FallbackInstalledOnce ==
    /\ fallbackListeners <= 1
    /\ inputCall.op = "mouseup" =>
          inputCall.callbacks = (IF inputState.usingFallback THEN 1 ELSE 0)

====
